---- MODULE Spec2Model ----
(***************************************************************************)
(* Model of the multi-meter monitoring orchestrator                        *)
(*   src/src/orchestrator/meter_orchestrator.py  (MeterOrchestrator)       *)
(*   src/src/meters/base_meter.py                (BaseMeter)               *)
(*   src/src/meters/{water,electric,gas}_meter.py                          *)
(*   src/src/llm_reader.py                       (read_meter_with_claude)  *)
(* and of two web services beside it                                       *)
(*   src/src/advanced_features_api.py            (decode_and_register_qr)  *)
(*   src/meter_preview_ui.py, meter_preview_ui_v2.py (api_trigger_reading) *)
(*                                                                         *)
(* Threads: one monitor thread per meter and per start() call, plus the    *)
(* caller thread ("main") that invokes start(), stop() and run_once().     *)
(* Numeric readings are integers; a float NaN and a JSON null are tagged   *)
(* values with Python's comparison semantics.                              *)
(***************************************************************************)
EXTENDS Integers, Sequences, FiniteSets, TLC

(* ------------------------------ bounds --------------------------------- *)
\* Spec (two meters, one run of the orchestrator): reading cycles explored
MaxCycles == 2
\* SpecRestart (one meter): number of start() calls and of reading cycles
RestartStarts == 2
RestartCycles == 2
\* SpecStop, LiveSpec, LiveSpecStop (one meter): number of start() calls and
\* of reading cycles
LiveStarts == 2
LiveCycles == 1
\* SpecValidator: length of the histories a validator is called with
MaxHistory == 2
\* SpecConfig: reading cycles explored
ConfigCycles == 2
\* SpecShared: reading cycles explored
SharedCycles == 2
\* SpecSummary: number of accepted readings the summarized meter collects
MaxStamped == 3
\* SpecQR: number of decode_and_register_qr calls presenting the token
MaxQRCalls == 3
\* SpecDashboard: background readings of one meter type running at a time
MaxBackground == 2

(* --------------------------- configuration ----------------------------- *)
\* names of the meters a configuration may hold
Meters == {"m1", "m2"}

\* the meter classes
Kinds == {"water", "electric", "gas"}

\* the 'name' and 'type' entries of the meter configurations: a water and an
\* electric meter with names of their own
DefaultConfig ==
    [m \in Meters |-> [name |-> m,
                       type |-> IF m = "m1" THEN "water" ELSE "electric"]]

\* two water meters whose configurations carry the same name
\* (validate_meter_config requires a name, not a name of its own)
SameNameConfig == [m \in Meters |-> [name |-> "m1", type |-> "water"]]

\* two water meters with names of their own
SameKindConfig == [m \in Meters |-> [name |-> m, type |-> "water"]]

(* ------------------------------ values --------------------------------- *)
\* a JSON number, a float NaN, or a JSON null (Python None)
Num(n) == [tag |-> "num", v |-> n]
NaN    == [tag |-> "nan", v |-> 0]
Null   == [tag |-> "null", v |-> 0]

IsNum(x) == x.tag = "num"

\* Python float comparisons: every ordering comparison with NaN is False
PyLt(a, b) == IsNum(a) /\ IsNum(b) /\ a.v < b.v
PyGt(a, b) == IsNum(a) /\ IsNum(b) /\ a.v > b.v
PyLe(a, b) == IsNum(a) /\ IsNum(b) /\ a.v <= b.v
PyGe(a, b) == IsNum(a) /\ IsNum(b) /\ a.v >= b.v
\* Python float arithmetic: NaN propagates
PySub(a, b) == IF IsNum(a) /\ IsNum(b) THEN Num(a.v - b.v) ELSE NaN
PyAdd(a, b) == IF IsNum(a) /\ IsNum(b) THEN Num(a.v + b.v) ELSE NaN
PyAbs(a)    == IF IsNum(a) THEN Num(IF a.v < 0 THEN -a.v ELSE a.v) ELSE NaN

(* --------------------- interpretation responses ------------------------ *)
\* fields parse_claude_response requires
RequiredFields == {"digital_reading", "black_digit", "dial_reading",
                   "total_reading", "confidence"}

\* a JSON answer of the vision service: its numeric fields, the required
\* field it lacks ("none": complete), and its kind-specific optional field
\* ("multiplier" for an electric meter, "unit" for a gas meter): absent, or
\* present as JSON null
Answer(total, digital, dial, missing, opt) ==
    [api |-> "ok", missing |-> missing, total |-> total, digital |-> digital,
     dial |-> dial, opt |-> opt]

\* the call to the vision service failed (API error, unparsable text)
ApiFailure == [api |-> "fail", missing |-> "none", total |-> Null,
               digital |-> Num(0), dial |-> Num(0), opt |-> "absent"]

\* what the call to the vision service may yield before it is parsed
RawResponses ==
    {ApiFailure}
    \cup {Answer(Num(n), Num(n), Num(0), "none", "absent") : n \in {5, 16}}
    \cup {Answer(Num(5), Num(5), Num(0), "total_reading", "absent"),
          Answer(Num(5), Num(5), Num(0), "none", "null"),
          Answer(Num(5), Num(0), Num(0), "none", "absent"),
          Answer(Num(5), Num(5), Num(1), "none", "absent"),
          Answer(Num(-1), Num(-1), Num(0), "none", "absent"),
          Answer(NaN, Num(0), Num(0), "none", "absent"),
          Answer(Null, Num(0), Num(0), "none", "absent")}

\* the 'error' entries of the error dictionaries read_meter returns:
\* its own for a failed capture and for a rejected reading, and that of
\* read_meter_with_claude ("API error: ...", "Missing required field: ...",
\* "Invalid dial_reading: ...", "Failed to parse JSON: ...")
CaptureFailed == "Failed to capture snapshot"
ValidationFailed == "Invalid reading - failed validation"
InterpretFailed == "API error"

\* results of a reading cycle: an error dictionary, or a reading
ErrorResult(error) == [status |-> "error", total |-> Null, error |-> error]
Reading(total) == [status |-> "ok", total |-> total, error |-> "none"]
\* an exception propagating out of the call
Raised == [status |-> "raise", total |-> Null, error |-> "none"]
\* no result yet
NoResult == [status |-> "none", total |-> Null, error |-> "none"]

\* llm_reader.parse_claude_response as reached from read_meter_with_claude:
\* an error dictionary when the call failed, a required field is missing or
\* dial_reading is outside [0.0, 0.10); otherwise the parsed object.
\* (one model unit is 1.0, so the only dial value inside [0.0, 0.10) is 0)
ReadMeterWithClaude(raw) ==
    IF raw.api = "fail" THEN [error |-> TRUE, data |-> raw]
    ELSE IF raw.missing # "none" THEN [error |-> TRUE, data |-> raw]
    ELSE IF ~(PyLe(Num(0), raw.dial) /\ PyLt(raw.dial, Num(1)))
         THEN [error |-> TRUE, data |-> raw]
    ELSE [error |-> FALSE, data |-> raw]

\* WaterMeter/ElectricMeter/GasMeter.parse_reading: TRUE when it raises.
\*  water:    raises ValueError on a missing required field
\*  electric: multiplier = get("multiplier", 1); a null multiplier is != 1
\*            and total_reading * None raises TypeError
\*  gas:      reported_unit = get("unit", self.unit); a null unit makes
\*            reported_unit.lower() raise AttributeError
ParseReadingRaises(kind, data) ==
    CASE kind = "water"    -> data.missing \in {"digital_reading", "dial_reading",
                                                "total_reading", "confidence"}
      [] kind = "electric" -> data.opt = "null"
                              \/ data.missing \in {"total_reading", "confidence"}
      [] kind = "gas"      -> data.opt = "null"
                              \/ data.missing \in {"total_reading", "confidence"}

\* a history check without the test for a decrease
HistoryReasonNoDecrease(total, history, maxChange) ==
    IF Len(history) > 0
    THEN LET change == PySub(total, history[Len(history)])
         IN  IF PyGt(change, Num(maxChange)) THEN "Excessive change"
             ELSE "ok"
    ELSE "ok"

\* a history check that rejects a change equal to the maximum (`>=`)
HistoryReasonStrictMax(total, history, maxChange) ==
    IF Len(history) > 0
    THEN LET change == PySub(total, history[Len(history)])
         IN  IF PyLt(change, Num(0)) THEN "Reading decreased"
             ELSE IF PyGe(change, Num(maxChange)) THEN "Excessive change"
             ELSE "ok"
    ELSE "ok"

\* a history check that measures the first reading against zero
HistoryReasonFromZero(total, history, maxChange) ==
    LET last == IF Len(history) > 0 THEN history[Len(history)] ELSE Num(0)
        change == PySub(total, last)
    IN  IF PyLt(change, Num(0)) THEN "Reading decreased"
        ELSE IF PyGt(change, Num(maxChange)) THEN "Excessive change"
        ELSE "ok"

\* the history check shared by the three validators, as the message it
\* prints before `return False` ("ok": the check passes):
\*   if len(self.readings) > 0: change = total - readings[-1]["total_reading"];
\*   change < 0 -> "Reading decreased"; change > max_change_per_reading ->
\*   "Excessive change"
HistoryReason(total, history, maxChange) ==
    IF Len(history) > 0
    THEN LET change == PySub(total, history[Len(history)])
         IN  IF PyLt(change, Num(0)) THEN "Reading decreased"
             ELSE IF PyGt(change, Num(maxChange)) THEN "Excessive change"
             ELSE "ok"
    ELSE "ok"

HistoryCheck(total, history, maxChange) ==
    HistoryReason(total, history, maxChange) = "ok"

\* WaterMeter.validate_reading, as the message it prints before
\* `return False` (the 0.01 tolerance of the total check is below one model
\* unit, so a mismatch is any non-zero difference)
WaterReason(data, history, maxChange) ==
    IF data.total.tag = "null" \/ data.digital.tag = "null" \/ data.dial.tag = "null"
    THEN "Missing values"
    ELSE IF PyGt(PyAbs(PySub(data.total, PyAdd(data.digital, data.dial))), Num(0))
    THEN "Total mismatch"
    ELSE IF PyLt(data.dial, Num(0)) \/ PyGe(data.dial, Num(1))
    THEN "Dial out of range"
    ELSE IF PyLt(data.digital, Num(0))
    THEN "Negative digital reading"
    ELSE HistoryReason(data.total, history, maxChange)

WaterValidate(data, history, maxChange) ==
    WaterReason(data, history, maxChange) = "ok"

\* ElectricMeter.validate_reading and GasMeter.validate_reading, as the
\* message printed before `return False`
TotalOnlyReason(data, history, maxChange) ==
    IF data.total.tag = "null" THEN "Missing total reading"
    ELSE IF PyLt(data.total, Num(0)) THEN "Negative reading"
    ELSE HistoryReason(data.total, history, maxChange)

TotalOnlyValidate(data, history, maxChange) ==
    TotalOnlyReason(data, history, maxChange) = "ok"

ValidateReason(kind, data, history, maxChange) ==
    IF kind = "water" THEN WaterReason(data, history, maxChange)
    ELSE TotalOnlyReason(data, history, maxChange)

ValidateReading(kind, data, history, maxChange) ==
    IF kind = "water" THEN WaterValidate(data, history, maxChange)
    ELSE TotalOnlyValidate(data, history, maxChange)

\* BaseMeter.read_meter after a successful capture: the result of the
\* interpret, parse and validate steps against the history (self.readings)
ReadMeter(kind, raw, history, maxChange) ==
    LET result == ReadMeterWithClaude(raw)
    IN  IF result.error THEN ErrorResult(InterpretFailed)
        ELSE IF ParseReadingRaises(kind, result.data) THEN Raised
        ELSE IF ~ValidateReading(kind, result.data, history, maxChange)
             THEN ErrorResult(ValidationFailed)
        ELSE Reading(result.data.total)

(* ------------------------------- state --------------------------------- *)
\* the caller thread, which invokes start(), stop() and run_once()
Main == <<"main", 0>>
\* monitor threads: the thread start() number g spawned for meter m
Tasks == Meters \X (1..(IF RestartStarts > LiveStarts THEN RestartStarts ELSE LiveStarts))
Actors == Tasks \cup {Main}

VARIABLES
    config,               \* the configuration of each meter (meter.config)
    meters,               \* MeterOrchestrator.meters, in configuration order
    budget,               \* the number of start() calls and cycles explored
    readings,             \* BaseMeter.readings, per meter (total_reading of each entry)
    consecutive_errors,   \* BaseMeter.consecutive_errors, per meter
    running,              \* MeterOrchestrator.running
    stop_event,           \* MeterOrchestrator.stop_event (is_set())
    threads,              \* MeterOrchestrator.threads: meter name -> thread
    total_readings,       \* MeterOrchestrator.total_readings
    successful_readings,  \* MeterOrchestrator.successful_readings
    failed_readings,      \* MeterOrchestrator.failed_readings
    pc,                   \* position of every thread
    result,               \* per thread: the local `reading` of the cycle in progress
    io,                   \* per thread: what the cycle in progress has written out
    tmp,                  \* per thread: the counter value loaded by `+= 1`
    ctr,                  \* per thread: the counter the `+= 1` in progress updates
    join_left,            \* stop(): threads.items() still to be joined
    ro_left,              \* run_once(): meters still to be read
    ret,                  \* the call that returned to the caller last, and its value
    starts,               \* number of start() calls that spawned threads
    cycles,               \* number of reading cycles begun
    cycles_done,          \* number of cycles monitor threads have finished counting
    inc_done,             \* per counter: number of `+= 1` statements completed
    temp_image,           \* per kind: the meter whose picture /tmp/<kind>_snapshot.jpg holds
    img,                  \* per thread: the meter whose picture its reading was read from
    call,                 \* a validate_reading call made on its own: its arguments
    verdict,              \* what that call printed and returned
    stamped,              \* self.readings of the summarized meter, with timestamps
    query,                \* a get_usage_summary call: its position, locals and result
    device_registry,      \* AdvancedFeaturesAPI.device_registry: the token and 'devices'
    qr_expired,           \* datetime.now() > expires_at of the token
    requests,             \* per request thread: a decode_and_register_qr call
    qr_count,             \* calls made with the token, and calls answered with success
    in_progress,          \* meter_preview_ui.READING_IN_PROGRESS
    background,           \* per meter type: trigger_reading_async threads running
    triggers              \* per request thread: an api_trigger_reading call

vars == <<config, meters, budget, readings, consecutive_errors, running, stop_event, threads,
          total_readings, successful_readings, failed_readings,
          pc, result, io, tmp, ctr, join_left, ro_left, ret,
          starts, cycles, cycles_done, inc_done, temp_image, img, call, verdict,
          stamped, query, device_registry, qr_expired, requests, qr_count,
          in_progress, background, triggers>>

cfgVars == <<config, meters, budget>>
qrVars == <<device_registry, qr_expired, requests, qr_count>>
dashVars == <<in_progress, background, triggers>>
callVars == <<call, verdict, stamped, query, qrVars, dashVars>>
meterVars == <<readings, consecutive_errors>>
counterVars == <<total_readings, successful_readings, failed_readings>>
orchVars == <<running, stop_event, threads>>
mainVars == <<join_left, ro_left, ret>>
imgVars == <<temp_image, img>>

\* config['type'] of a meter (MeterOrchestrator._create_meter)
MeterType(m) == config[m].type

\* meter.config.get('name', ...): the key of a meter in the dictionaries
\* threads, and results of run_once and test_connections
MeterName(m) == config[m].name

\* self.max_change_per_reading: config.get("max_change_per_reading", default)
MaxChangePerReading(m) ==
    CASE MeterType(m) = "water"    -> 10
      [] MeterType(m) = "electric" -> 50
      [] MeterType(m) = "gas"      -> 100

\* a dictionary keyed by meter name that holds no entry
EmptyDict == [n \in Meters |-> "absent"]
\* nothing has returned to the caller
NoReturn == [op |-> "none", raised |-> FALSE, value |-> EmptyDict]
\* a call returns `value` (for None: no entries) to a caller that holds on to
\* it until its next call; a caller that drops it is left with nothing
Returns(op, value) ==
    IF budget.returns THEN [op |-> op, raised |-> FALSE, value |-> value]
    ELSE NoReturn

NoThread == <<"none", 0>>
Counters == {"total", "successful", "failed"}

\* the meter a thread works on: its own meter for a monitor thread, the
\* current meter of the run_once loop for the caller thread
MeterOf(a) == IF a = Main THEN ro_left[1] ELSE a[1]

\* positions inside BaseMeter.process_reading
InCycle == {"capture", "interpret", "persist"}

\* config.get("mqtt_enabled", False) of each configured meter
MqttEnabled(m) == m = "m1"

\* what a cycle has written out: the line of the JSONL log, the snapshot
\* copied into snapshot_dir, the reading handed to store_reading (InfluxDB)
\* and to publish_mqtt
NoIO == [logged |-> FALSE, snapshot |-> FALSE, stored |-> FALSE, published |-> FALSE]

\* MeterOrchestrator.__init__ / BaseMeter.__init__ for the meters of a
\* configuration that were initialized
InitOf(cfg, meterList, maxStarts, maxCycles, held, traced) ==
    /\ config = cfg
    /\ meters = meterList
    /\ budget = [starts |-> maxStarts, cycles |-> maxCycles, returns |-> held,
                 images |-> traced]
    /\ readings = [m \in Meters |-> <<>>]
    /\ consecutive_errors = [m \in Meters |-> 0]
    /\ running = FALSE
    /\ stop_event = FALSE
    /\ threads = [n \in Meters |-> NoThread]
    /\ total_readings = 0
    /\ successful_readings = 0
    /\ failed_readings = 0
    /\ pc = [a \in Actors |-> IF a = Main THEN "idle" ELSE "unborn"]
    /\ result = [a \in Actors |-> NoResult]
    /\ io = [a \in Actors |-> NoIO]
    /\ tmp = [a \in Tasks |-> 0]
    /\ ctr = [a \in Tasks |-> "total"]
    /\ join_left = <<>>
    /\ ro_left = <<>>
    /\ ret = NoReturn
    /\ starts = 0
    /\ cycles = 0
    /\ cycles_done = 0
    /\ inc_done = [c \in Counters |-> 0]
    /\ temp_image = [k \in Kinds |-> "none"]
    /\ img = [a \in Actors |-> "none"]

\* the default configuration, the caller not holding on to returned values
InitWith(meterList, maxStarts, maxCycles) ==
    InitOf(DefaultConfig, meterList, maxStarts, maxCycles, FALSE, FALSE)

\* a fraction in lowest terms
RECURSIVE GCD(_, _)
GCD(a, b) == IF b = 0 THEN a ELSE GCD(b, a % b)
Frac(n, d) == [n |-> n \div GCD(n, d), d |-> d \div GCD(n, d)]
ZeroRate == [n |-> 0, d |-> 1]

\* the locals and the result of a get_usage_summary call that has not begun
NoSummary ==
    [outcome |-> "none", num_readings |-> 0, duration |-> 0, start_reading |-> 0,
     end_reading |-> 0, total_usage |-> 0, average_rate |-> ZeroRate,
     current_rate |-> ZeroRate, alert |-> FALSE]

NoQuery(kind) ==
    [pc |-> "idle", kind |-> kind, via |-> "none", len0 |-> 0, len1 |-> 0,
     summary |-> NoSummary]

\* request threads of the Flask application (app.run serves every request
\* on a thread of its own)
Requests == {"r1", "r2"}
\* device_id values a registration may carry
Devices == {"d1", "d2"}
\* meter types of the dashboard's URLs
TriggerTypes == {"water", "electric"}

\* a request thread that is not inside decode_and_register_qr
NoRegistration ==
    [pc |-> "idle", device |-> "d1", complete |-> TRUE, late |-> FALSE,
     response |-> "none"]

\* the registry after generate_qr_code: the token pending, no device
NoDevices ==
    /\ device_registry = [qr |-> "pending", devices |-> [d \in Devices |-> "absent"]]
    /\ qr_expired = FALSE
    /\ qr_count = [calls |-> 0, successes |-> 0]

\* a request thread that is not inside api_trigger_reading
NoTrigger == [pc |-> "idle", type |-> "water", status |-> "none"]

\* the web services are idle
NoService ==
    /\ NoDevices
    /\ requests = [r \in Requests |-> NoRegistration]
    /\ in_progress = {}
    /\ background = [k \in TriggerTypes |-> [running |-> 0, last |-> "none"]]
    /\ triggers = [r \in Requests |-> NoTrigger]

\* no validate_reading and no get_usage_summary call is made beside the
\* reading cycles, and no request is served
NoCall ==
    /\ call = [kind |-> "none", reading |-> ApiFailure, history |-> <<>>,
               max_change |-> 0]
    /\ verdict = "none"
    /\ stamped = <<>>
    /\ query = NoQuery("none")
    /\ NoService

(* ----------------- BaseMeter.process_reading, per thread ---------------- *)
\* process_reading returns to its caller:
\*  _monitor_meter goes on to `self.total_readings += 1`;
\*  run_once goes on to `results[meter_name] = reading`
Return(a) ==
    IF a = Main
    THEN /\ pc' = [pc EXCEPT ![Main] = "ro_next"]
         /\ UNCHANGED <<ctr, mainVars>>
    ELSE /\ pc' = [pc EXCEPT ![a] = "inc_ld"]
         /\ ctr' = [ctr EXCEPT ![a] = "total"]
         /\ UNCHANGED mainVars

\* what the caller keeps of a returned reading: _monitor_meter whether it
\* has an 'error' key, run_once also the error it carries
Kept(a, r) ==
    [status |-> r.status, total |-> Null,
     error |-> IF a = Main THEN r.error ELSE "none"]

\* process_reading raises to its caller:
\*  _monitor_meter's `except Exception` does `self.failed_readings += 1`;
\*  run_once's `except Exception` stores an error result and moves on
\* a _monitor_meter without the `except Exception` clause: the thread dies
MonitorExceptUncaught(t) ==
    /\ pc' = [pc EXCEPT ![t] = "done"]
    /\ UNCHANGED <<ctr, mainVars>>

\* _monitor_meter: `except Exception as e: self.failed_readings += 1`
MonitorExcept(t) ==
    /\ pc' = [pc EXCEPT ![t] = "inc_ld"]
    /\ ctr' = [ctr EXCEPT ![t] = "failed"]
    /\ UNCHANGED mainVars

Raise(a) ==
    IF a = Main
    THEN /\ pc' = [pc EXCEPT ![Main] = "ro_next"]
         /\ UNCHANGED <<ctr, mainVars>>
    ELSE MonitorExcept(a)

\* self.temp_image = f"/tmp/{self.meter_type}_snapshot.jpg": the file a
\* meter's capture writes and its interpretation reads
TempImage(m) == MeterType(m)

\* the picture a file holds, followed as far as the exploration follows
\* pictures at all
Picture(m) == IF budget.images THEN m ELSE "none"

\* read_meter: `if not self.capture_snapshot(): return {"error": ...}`
\* (CameraCapture catches its own exceptions and returns False); a
\* successful capture has written the camera's picture to self.temp_image
Capture(a) ==
    /\ pc[a] = "capture"
    /\ \E ok \in BOOLEAN :
         IF ok
         THEN /\ pc' = [pc EXCEPT ![a] = "interpret"]
              /\ temp_image' = [temp_image EXCEPT ![TempImage(MeterOf(a))] =
                                                     Picture(MeterOf(a))]
              /\ UNCHANGED result
         ELSE /\ pc' = [pc EXCEPT ![a] = "persist"]
              /\ result' = [result EXCEPT ![a] = ErrorResult(CaptureFailed)]
              /\ UNCHANGED temp_image
    /\ UNCHANGED <<meterVars, counterVars, orchVars, tmp, ctr, mainVars,
                   starts, cycles, cycles_done, inc_done, img>>
    /\ UNCHANGED <<cfgVars, callVars, io>>

\* read_meter: read_meter_with_claude on the picture self.temp_image holds
\* by now, parse_reading, validate_reading
Interpret(a) ==
    /\ pc[a] = "interpret"
    /\ \E raw \in RawResponses :
         LET m == MeterOf(a)
             r == ReadMeter(MeterType(m), raw, readings[m], MaxChangePerReading(m))
         IN  IF r.status = "raise"
             THEN /\ result' = [result EXCEPT ![a] = Raised]
                  /\ Raise(a)
                  /\ UNCHANGED img
             ELSE /\ result' = [result EXCEPT ![a] = r]
                  /\ img' = [img EXCEPT ![a] = temp_image[TempImage(m)]]
                  /\ pc' = [pc EXCEPT ![a] = "persist"]
                  /\ UNCHANGED <<ctr, mainVars>>
    /\ UNCHANGED <<meterVars, counterVars, orchVars, tmp,
                   starts, cycles, cycles_done, inc_done, temp_image>>
    /\ UNCHANGED <<cfgVars, callVars, io>>

\* an `if` that takes the success branch for every reading
HasNoErrorAlways(r) == TRUE

\* process_reading: `if "error" not in reading`
HasNoError(r) == r.status = "ok"

\* process_reading after read_meter: log_reading (open() and write() of the
\* JSONL log may raise OSError; a failing shutil.copy of the snapshot is
\* caught and only printed), then store_reading, append and reset, or count
\* the error, then publish_mqtt (store_reading and publish_mqtt catch their
\* own failures)
Persist(a) ==
    /\ pc[a] = "persist"
    /\ \E logged \in BOOLEAN, copied \in BOOLEAN :
         IF ~logged
         THEN /\ ~copied
              /\ result' = [result EXCEPT ![a] = Raised]
              /\ Raise(a)
              /\ UNCHANGED <<meterVars, io>>
         ELSE LET m == MeterOf(a) IN
              /\ IF HasNoError(result[a])
                 THEN /\ readings' = [readings EXCEPT ![m] = Append(@, result[a].total)]
                      /\ consecutive_errors' = [consecutive_errors EXCEPT ![m] = 0]
                 ELSE /\ consecutive_errors' = [consecutive_errors EXCEPT ![m] = @ + 1]
                      /\ UNCHANGED readings
              /\ io' = [io EXCEPT ![a] =
                           [logged |-> TRUE, snapshot |-> copied,
                            stored |-> HasNoError(result[a]),
                            published |-> HasNoError(result[a]) /\ MqttEnabled(m)]]
              /\ Return(a)
              /\ result' = [result EXCEPT ![a] = Kept(a, result[a])]
    /\ img' = [img EXCEPT ![a] = "none"]
    /\ UNCHANGED <<counterVars, orchVars, tmp,
                   starts, cycles, cycles_done, inc_done, temp_image>>
    /\ UNCHANGED <<cfgVars, callVars>>

(* ------------------- MeterOrchestrator._monitor_meter ------------------- *)
\* a loop condition that never sees the event (`while True:`)
LoopExitsNever(ev) == FALSE

\* _monitor_meter: the loop condition `not self.stop_event.is_set()` is false
LoopExits(ev) == ev

\* a loop body that holds a lock shared by all monitor threads around
\* process_reading: a cycle begins only when no other thread is in one
CycleMayBeginSerialized(t) == \A u \in Tasks \ {t} : pc[u] \notin InCycle

\* _monitor_meter calls meter.process_reading() at once: neither the loop
\* nor process_reading takes a lock or waits for another thread
CycleMayBegin(t) == TRUE

\* `while not self.stop_event.is_set():` followed by the call of
\* process_reading; the loop exits when the event is set
LoopCheck(t) ==
    /\ pc[t] = "loop"
    /\ IF LoopExits(stop_event)
       THEN /\ pc' = [pc EXCEPT ![t] = "done"]
            /\ UNCHANGED cycles
       ELSE /\ CycleMayBegin(t)
            /\ cycles < budget.cycles
            /\ pc' = [pc EXCEPT ![t] = "capture"]
            /\ cycles' = cycles + 1
    /\ UNCHANGED <<meterVars, counterVars, orchVars, result, tmp, ctr, mainVars,
                   starts, cycles_done, inc_done>>
    /\ UNCHANGED <<cfgVars, callVars, imgVars, io>>

CounterValue(c) ==
    CASE c = "total"      -> total_readings
      [] c = "successful" -> successful_readings
      [] c = "failed"     -> failed_readings

\* `self.<counter> += 1`, first half: load the attribute (process_reading
\* has returned: what it wrote out is behind the thread)
IncLoad(t) ==
    /\ pc[t] = "inc_ld"
    /\ tmp' = [tmp EXCEPT ![t] = CounterValue(ctr[t])]
    /\ pc' = [pc EXCEPT ![t] = "inc_st"]
    /\ io' = [io EXCEPT ![t] = NoIO]
    /\ UNCHANGED <<meterVars, counterVars, orchVars, result, ctr, mainVars,
                   starts, cycles, cycles_done, inc_done>>
    /\ UNCHANGED <<cfgVars, callVars, imgVars>>

\* `self.<counter> += 1`, second half: store the incremented value; after
\* total_readings comes the counter chosen by `if 'error' in reading`,
\* after that (or after the except handler's failed_readings) the wait
IncStore(t) ==
    /\ pc[t] = "inc_st"
    /\ total_readings' = IF ctr[t] = "total" THEN tmp[t] + 1 ELSE total_readings
    /\ successful_readings' = IF ctr[t] = "successful" THEN tmp[t] + 1
                              ELSE successful_readings
    /\ failed_readings' = IF ctr[t] = "failed" THEN tmp[t] + 1 ELSE failed_readings
    /\ inc_done' = [inc_done EXCEPT ![ctr[t]] = @ + 1]
    /\ IF ctr[t] = "total"
       THEN /\ ctr' = [ctr EXCEPT ![t] = IF result[t].status = "error"
                                         THEN "failed" ELSE "successful"]
            /\ pc' = [pc EXCEPT ![t] = "inc_ld"]
            /\ UNCHANGED <<cycles_done, result>>
       ELSE /\ pc' = [pc EXCEPT ![t] = "wait"]
            /\ cycles_done' = cycles_done + 1
            /\ ctr' = [ctr EXCEPT ![t] = "total"]
            /\ result' = [result EXCEPT ![t] = NoResult]
    /\ tmp' = [tmp EXCEPT ![t] = 0]
    /\ UNCHANGED <<meterVars, orchVars, mainVars, starts, cycles>>
    /\ UNCHANGED <<cfgVars, callVars, imgVars, io>>

\* `self.stop_event.wait(interval)` returns because the interval elapsed
WaitTimeout(t) ==
    /\ pc[t] = "wait"
    /\ pc' = [pc EXCEPT ![t] = "loop"]
    /\ UNCHANGED <<meterVars, counterVars, orchVars, result, tmp, ctr, mainVars,
                   starts, cycles, cycles_done, inc_done>>
    /\ UNCHANGED <<cfgVars, callVars, imgVars, io>>

\* a wait the event cannot interrupt (`time.sleep(interval)`)
WaitWakesNever(ev) == FALSE

\* Event.wait returns as soon as the event is set
WaitWakes(ev) == ev

\* `self.stop_event.wait(interval)` returns because the event is set
WaitSignalled(t) ==
    /\ pc[t] = "wait"
    /\ WaitWakes(stop_event)
    /\ pc' = [pc EXCEPT ![t] = "loop"]
    /\ UNCHANGED <<meterVars, counterVars, orchVars, result, tmp, ctr, mainVars,
                   starts, cycles, cycles_done, inc_done>>
    /\ UNCHANGED <<cfgVars, callVars, imgVars, io>>

(* ----------------- MeterOrchestrator.start / stop / run_once ------------ *)
IsConfigured(m) == \E i \in 1..Len(meters) : meters[i] = m

\* the meter whose entry a dictionary keyed by name ends up holding under
\* name n: a later `d[meter_name] = ...` overwrites an earlier one
LastNamed(n) ==
    meters[CHOOSE i \in 1..Len(meters) :
              /\ MeterName(meters[i]) = n
              /\ \A j \in (i + 1)..Len(meters) : MeterName(meters[j]) # n]

IsName(n) == \E i \in 1..Len(meters) : MeterName(meters[i]) = n

\* the keys of such a dictionary, in insertion order
RECURSIVE DictKeys(_, _)
DictKeys(ms, seen) ==
    IF ms = <<>> THEN <<>>
    ELSE LET n == MeterName(Head(ms))
         IN  IF n \in seen THEN DictKeys(Tail(ms), seen)
             ELSE <<n>> \o DictKeys(Tail(ms), seen \cup {n})

\* start(): returns at once when already running or without meters (an
\* error is logged, nothing is raised); otherwise sets running, clears the
\* event and starts one thread per meter, `self.threads[meter_name] = thread`
Start ==
    /\ pc[Main] = "idle"
    /\ ret' = Returns("start", EmptyDict)
    /\ IF running \/ meters = <<>>
       THEN UNCHANGED <<orchVars, pc, starts>>
       ELSE /\ starts < budget.starts
            /\ running' = TRUE
            /\ stop_event' = FALSE
            /\ starts' = starts + 1
            /\ pc' = [a \in Actors |->
                        IF a \in Tasks /\ a[2] = starts + 1 /\ IsConfigured(a[1])
                        THEN "loop" ELSE pc[a]]
            /\ threads' = [n \in Meters |->
                             IF IsName(n) THEN <<LastNamed(n), starts + 1>>
                             ELSE NoThread]
    /\ UNCHANGED <<meterVars, counterVars, result, tmp, ctr, join_left, ro_left,
                   cycles, cycles_done, inc_done>>
    /\ UNCHANGED <<cfgVars, callVars, imgVars, io>>

\* stop(): returns at once when not running; otherwise clears running,
\* sets the event and goes on to join threads.items()
Stop ==
    /\ pc[Main] = "idle"
    /\ IF ~running
       THEN /\ ret' = Returns("stop", EmptyDict)
            /\ UNCHANGED <<running, stop_event, join_left, pc>>
       ELSE /\ running' = FALSE
            /\ stop_event' = TRUE
            /\ join_left' = SelectSeq(DictKeys(meters, {}),
                                      LAMBDA n : threads[n] # NoThread)
            /\ pc' = [pc EXCEPT ![Main] = "stop_join"]
            /\ ret' = NoReturn
    /\ UNCHANGED <<meterVars, counterVars, threads, result, tmp, ctr, ro_left,
                   starts, cycles, cycles_done, inc_done>>
    /\ UNCHANGED <<cfgVars, callVars, imgVars, io>>

\* a join without timeout returns only when the thread has finished
JoinReturnsWhenFinished(t) == pc[t] = "done"

\* thread.join(timeout=5.0) returns, the thread having finished or not
JoinReturns(t) == TRUE

\* stop(): one iteration of `for name, thread in self.threads.items()`
StopJoin ==
    /\ pc[Main] = "stop_join"
    /\ join_left # <<>>
    /\ JoinReturns(threads[Head(join_left)])
    /\ join_left' = Tail(join_left)
    /\ UNCHANGED <<meterVars, counterVars, orchVars, pc, result, tmp, ctr, ro_left,
                   ret, starts, cycles, cycles_done, inc_done>>
    /\ UNCHANGED <<cfgVars, callVars, imgVars, io>>

\* stop(): `self.threads.clear()` and return
StopFinish ==
    /\ pc[Main] = "stop_join"
    /\ join_left = <<>>
    /\ threads' = [n \in Meters |-> NoThread]
    /\ pc' = [pc EXCEPT ![Main] = "idle"]
    /\ ret' = Returns("stop", EmptyDict)
    /\ UNCHANGED <<meterVars, counterVars, running, stop_event, result, tmp, ctr,
                   join_left, ro_left, starts, cycles, cycles_done, inc_done>>
    /\ UNCHANGED <<cfgVars, callVars, imgVars, io>>

\* run_once(): `results = {}`, then `for meter in self.meters:
\* reading = meter.process_reading()` on the caller thread
RunOnce ==
    /\ pc[Main] = "idle"
    /\ meters # <<>>
    /\ cycles + Len(meters) <= budget.cycles
    /\ cycles' = cycles + Len(meters)
    /\ ro_left' = meters
    /\ pc' = [pc EXCEPT ![Main] = "capture"]
    /\ ret' = Returns("run_once", EmptyDict)
    /\ UNCHANGED <<meterVars, counterVars, orchVars, result, tmp, ctr, join_left,
                   starts, cycles_done, inc_done>>
    /\ UNCHANGED <<cfgVars, callVars, imgVars, io>>

\* the entry run_once stores for a meter: the reading, the error dictionary
\* process_reading returned, or the one made of str(e) in the except clause
Entry(r) ==
    CASE r.status = "ok"    -> "reading"
      [] r.status = "error" -> r.error
      [] r.status = "raise" -> "str(e)"

\* run_once(): `results[meter_name] = reading` (in the except clause: the
\* error dictionary made of str(e)), then the next meter, or `return results`
RunOnceNextMeter ==
    /\ pc[Main] = "ro_next"
    /\ ro_left' = Tail(ro_left)
    /\ pc' = [pc EXCEPT ![Main] = IF Len(ro_left) > 1 THEN "capture" ELSE "idle"]
    /\ ret' = Returns("run_once",
                      [ret.value EXCEPT ![MeterName(MeterOf(Main))] =
                                            Entry(result[Main])])
    /\ result' = [result EXCEPT ![Main] = NoResult]
    /\ io' = [io EXCEPT ![Main] = NoIO]
    /\ UNCHANGED <<meterVars, counterVars, orchVars, tmp, ctr, join_left,
                   starts, cycles, cycles_done, inc_done>>
    /\ UNCHANGED <<cfgVars, callVars, imgVars>>

\* test_connections(): for every meter `results[meter_name] =
\* meter.test_connection()` (a capture into a temporary file of its own),
\* False when it raises; touches nothing the monitor threads use
TestConnections ==
    /\ pc[Main] = "idle"
    /\ budget.returns
    /\ \E success \in [Meters -> {"True", "False"}] :
         ret' = Returns("test_connections",
                        [n \in Meters |-> IF IsName(n) THEN success[LastNamed(n)]
                                          ELSE "absent"])
    /\ UNCHANGED <<meterVars, counterVars, orchVars, pc, result, tmp, ctr,
                   join_left, ro_left, starts, cycles, cycles_done, inc_done>>
    /\ UNCHANGED <<cfgVars, callVars, imgVars, io>>

Next ==
    \/ \E a \in Actors : Capture(a)
    \/ \E a \in Actors : Interpret(a)
    \/ \E a \in Actors : Persist(a)
    \/ \E t \in Tasks : LoopCheck(t)
    \/ \E t \in Tasks : IncLoad(t)
    \/ \E t \in Tasks : IncStore(t)
    \/ \E t \in Tasks : WaitTimeout(t)
    \/ \E t \in Tasks : WaitSignalled(t)
    \/ Start
    \/ Stop
    \/ StopJoin
    \/ StopFinish
    \/ RunOnce
    \/ RunOnceNextMeter

\* two meters of different kinds and one run of the orchestrator (a single
\* start()); restarts are explored by SpecRestart and SpecStop
Init == InitWith(<<"m1", "m2">>, 1, MaxCycles) /\ NoCall
Spec == Init /\ [][Next]_vars

\* one meter, the orchestrator restarted after a stop
InitRestart == InitWith(<<"m1">>, RestartStarts, RestartCycles) /\ NoCall
SpecRestart == InitRestart /\ [][Next]_vars

(* --------- configurations validate_config lets through, diagnostics ----- *)
\* the orchestrator with the calls of the other specifications and
\* test_connections
NextConfig == Next \/ TestConnections

\* an orchestrator none of whose meters was initialized (_initialize_meters
\* logs and skips a meter whose construction fails), or one with two water
\* meters of the same name; the caller holds on to what the calls return
InitConfig ==
    /\ \/ InitOf(DefaultConfig, <<>>, 1, ConfigCycles, TRUE, FALSE)
       \/ InitOf(SameNameConfig, <<"m1", "m2">>, 1, ConfigCycles, TRUE, FALSE)
    /\ NoCall

SpecConfig == InitConfig /\ [][NextConfig]_vars

(* ----------------------- two meters of the same kind -------------------- *)
\* two water meters and one run of the orchestrator; the pictures the
\* temporary files hold are followed
InitShared ==
    InitOf(SameKindConfig, <<"m1", "m2">>, 1, SharedCycles, FALSE, TRUE) /\ NoCall

SpecShared == InitShared /\ [][Next]_vars

(* ------------------- validate_reading called on its own ----------------- *)
\* config.get("max_change_per_reading", default): the default of the kind
DefaultMaxChange(kind) ==
    CASE kind = "water"    -> 10
      [] kind = "electric" -> 50
      [] kind = "gas"      -> 100

\* total_reading values a parsed reading may carry
Totals ==
    {Null, NaN} \cup {Num(n) : n \in {-1, 0, 5, 99, 100, 103, 104, 105, 110,
                                       111, 150, 151, 200, 201, 1000}}

\* parsed readings with a given total_reading: digital_reading and
\* dial_reading add up to it with the dial in range, add up to it with the
\* dial out of range, do not add up to it, or digital_reading is null
ReadingsOf(total) ==
    {Answer(total, total, Num(0), "none", "absent"),
     Answer(total, PySub(total, Num(1)), Num(1), "none", "absent"),
     Answer(total, Num(7), Num(0), "none", "absent"),
     Answer(total, Null, Num(0), "none", "absent")}

\* self.readings: sequences of up to MaxHistory accepted totals
Histories ==
    UNION {[1..n -> {Num(0), Num(100), NaN}] : n \in 0..MaxHistory}

\* the arguments of the calls explored: the meter class, the parsed reading,
\* self.readings and self.max_change_per_reading (default or configured)
Calls ==
    {[kind |-> k, reading |-> r, history |-> h, max_change |-> x] :
        k \in Kinds, r \in UNION {ReadingsOf(t) : t \in Totals},
        h \in Histories, x \in {3, 10, 50, 100}}

InitValidator ==
    /\ InitWith(<<>>, 0, 0)
    /\ call \in {c \in Calls : c.max_change \in {3, DefaultMaxChange(c.kind)}}
    /\ verdict = "pending"
    /\ stamped = <<>>
    /\ query = NoQuery("none")
    /\ NoService

\* validate_reading(reading) returns, having printed its message
Validate ==
    /\ verdict = "pending"
    /\ verdict' = ValidateReason(call.kind, call.reading, call.history,
                                 call.max_change)
    /\ UNCHANGED <<cfgVars, meterVars, counterVars, orchVars, pc, result, io, tmp, ctr,
                   mainVars, starts, cycles, cycles_done, inc_done, imgVars, call,
                   stamped, query, qrVars, dashVars>>

NextValidator == Validate

SpecValidator == InitValidator /\ [][NextValidator]_vars

(* ------------- get_usage_summary beside the meter's cycles -------------- *)
\* everything the reading cycles and the orchestrator work on
cycleVars == <<cfgVars, meterVars, counterVars, orchVars, pc, result, io, tmp, ctr,
               mainVars, starts, cycles, cycles_done, inc_done, imgVars>>

\* datetime.now() when a reading is taken: the naive local wall clock, which
\* may show the same time again or an earlier one (clock set back, end of
\* daylight saving time)
Clock == {0, 1}

\* total_reading values the summarized meter may read
SummaryTotals == {0, 1, 2}

\* the total_reading entries of a history
RECURSIVE TotalsOf(_)
TotalsOf(h) == IF h = <<>> THEN <<>> ELSE <<Num(Head(h).total)>> \o TotalsOf(Tail(h))

\* a test that lets a single reading through (`len(self.readings) < 1`)
InsufficientDataEmpty(n) == n < 1

\* calculate_statistics: `if len(self.readings) < 2: return None`
InsufficientData(n) == n < 2

\* calculate_statistics: `total_usage / duration_hours if duration_hours > 0
\* else 0`
AverageRate(usage, duration) ==
    IF duration > 0 THEN Frac(usage, duration) ELSE ZeroRate

\* calculate_flow_rate / calculate_power_consumption: 0.0 with fewer than two
\* readings or a time difference <= 0, else the difference of the last two
\* total_reading over the difference of their timestamps
CurrentRate(h) ==
    IF Len(h) < 2 THEN ZeroRate
    ELSE LET current == h[Len(h)]
             previous == h[Len(h) - 1]
             time_diff == current.timestamp - previous.timestamp
         IN  IF time_diff <= 0 THEN ZeroRate
             ELSE Frac(current.total - previous.total, time_diff)

\* check_for_leak (water): 0 < flow_rate < threshold; check_high_usage
\* (electric, gas): rate > threshold; one model unit of rate is the threshold
Alert(kind, rate) ==
    IF kind = "water" THEN 0 < rate.n /\ rate.n < rate.d
    ELSE rate.n > rate.d

\* get_usage_summary computed on one history: the reference a returned
\* summary is compared with
UsageSummary(kind, h) ==
    IF InsufficientData(Len(h)) THEN [NoSummary EXCEPT !.outcome = "insufficient"]
    ELSE LET duration == h[Len(h)].timestamp - h[1].timestamp
             usage == h[Len(h)].total - h[1].total
         IN  [outcome |-> "summary", num_readings |-> Len(h),
              duration |-> duration, start_reading |-> h[1].total,
              end_reading |-> h[Len(h)].total, total_usage |-> usage,
              average_rate |-> AverageRate(usage, duration),
              current_rate |-> CurrentRate(h),
              alert |-> Alert(kind, CurrentRate(h))]

\* a cycle of the meter's monitor thread accepts a reading:
\* data['timestamp'] = datetime.now().isoformat(), validate_reading against
\* the history, `self.readings.append(reading)`
AcceptReading ==
    /\ Len(stamped) < MaxStamped
    /\ \E total \in SummaryTotals, now \in Clock :
         /\ ValidateReading(query.kind,
                            Answer(Num(total), Num(total), Num(0), "none", "absent"),
                            TotalsOf(stamped), DefaultMaxChange(query.kind))
         /\ stamped' = Append(stamped, [total |-> total, timestamp |-> now])
    /\ UNCHANGED <<cycleVars, qrVars, dashVars, call, verdict, query>>

\* get_usage_summary is called, on the meter or by get_meter_summaries
\* (`results[meter_name] = meter.get_usage_summary()`); calculate_statistics
\* tests len(self.readings), and the error dictionary is returned on None
GetUsageSummary ==
    /\ query.pc \in {"idle", "returned"}
    /\ \E via \in {"meter", "orchestrator"} :
         query' = IF InsufficientData(Len(stamped))
                  THEN [NoQuery(query.kind) EXCEPT
                           !.pc = "returned", !.via = via,
                           !.len0 = Len(stamped), !.len1 = Len(stamped),
                           !.summary.outcome = "insufficient"]
                  ELSE [NoQuery(query.kind) EXCEPT
                           !.pc = "times", !.via = via, !.len0 = Len(stamped)]
    /\ UNCHANGED <<cycleVars, qrVars, dashVars, call, verdict, stamped>>

\* calculate_statistics: start_time and end_time from self.readings[0] and
\* self.readings[-1], duration_hours
StatsTimes ==
    /\ query.pc = "times"
    /\ query' = [query EXCEPT
                    !.pc = "readings",
                    !.summary.duration =
                        stamped[Len(stamped)].timestamp - stamped[1].timestamp]
    /\ UNCHANGED <<cycleVars, qrVars, dashVars, call, verdict, stamped>>

\* calculate_statistics: start_reading and end_reading from
\* self.readings[0] and self.readings[-1], total_usage, avg_rate
StatsReadings ==
    /\ query.pc = "readings"
    /\ LET usage == stamped[Len(stamped)].total - stamped[1].total
       IN  query' = [query EXCEPT
                        !.pc = "num",
                        !.summary.start_reading = stamped[1].total,
                        !.summary.end_reading = stamped[Len(stamped)].total,
                        !.summary.total_usage = usage,
                        !.summary.average_rate =
                            AverageRate(usage, query.summary.duration)]
    /\ UNCHANGED <<cycleVars, qrVars, dashVars, call, verdict, stamped>>

\* calculate_statistics: `"num_readings": len(self.readings)` in the
\* dictionary it returns
StatsNum ==
    /\ query.pc = "num"
    /\ query' = [query EXCEPT !.pc = "rate",
                              !.summary.num_readings = Len(stamped)]
    /\ UNCHANGED <<cycleVars, qrVars, dashVars, call, verdict, stamped>>

\* get_usage_summary: calculate_flow_rate() / calculate_power_consumption()
\* on self.readings as it is now
SummaryRate ==
    /\ query.pc = "rate"
    /\ query' = [query EXCEPT !.pc = "alert",
                              !.summary.current_rate = CurrentRate(stamped)]
    /\ UNCHANGED <<cycleVars, qrVars, dashVars, call, verdict, stamped>>

\* get_usage_summary: check_for_leak() / check_high_usage(), which compute
\* the rate once more on self.readings as it is now; the summary is returned
SummaryAlert ==
    /\ query.pc = "alert"
    /\ query' = [query EXCEPT
                    !.pc = "returned", !.len1 = Len(stamped),
                    !.summary.outcome = "summary",
                    !.summary.alert = Alert(query.kind, CurrentRate(stamped))]
    /\ UNCHANGED <<cycleVars, qrVars, dashVars, call, verdict, stamped>>

NextSummary ==
    \/ AcceptReading
    \/ GetUsageSummary
    \/ StatsTimes
    \/ StatsReadings
    \/ StatsNum
    \/ SummaryRate
    \/ SummaryAlert

\* a meter of any kind with its history empty, its monitor thread accepting
\* readings while summaries are asked for
InitSummary ==
    /\ InitWith(<<>>, 0, 0)
    /\ call = [kind |-> "none", reading |-> ApiFailure, history |-> <<>>,
               max_change |-> 0]
    /\ verdict = "none"
    /\ stamped = <<>>
    /\ \E kind \in Kinds : query = NoQuery(kind)
    /\ NoService

SpecSummary == InitSummary /\ [][NextSummary]_vars

(* ----------- AdvancedFeaturesAPI.decode_and_register_qr ---------------- *)
\* a call presenting the binding token generate_qr_code issued arrives:
\* data = request.get_json(), with or without device_id and camera_ip; it is
\* a later call when a call has been answered with success before
QRRequest(r) ==
    /\ requests[r].pc = "idle"
    /\ qr_count.calls < MaxQRCalls
    /\ qr_count' = [qr_count EXCEPT !.calls = @ + 1]
    /\ \E d \in Devices, complete \in BOOLEAN :
         requests' = [requests EXCEPT ![r] =
                        [pc |-> "verify", device |-> d, complete |-> complete,
                         late |-> qr_count.successes > 0, response |-> "none"]]
    /\ UNCHANGED <<cycleVars, dashVars, call, verdict, stamped, query,
                   device_registry, qr_expired>>

\* the checks, in the order of the code: required fields (400), expiry
\* (400, "QR code has expired"), `qr_info['status'] != 'pending'` (400, "QR
\* code has already been used")
QRVerify(r) ==
    /\ requests[r].pc = "verify"
    /\ requests' = [requests EXCEPT ![r] =
          IF ~requests[r].complete
          THEN [@ EXCEPT !.pc = "idle", !.response = "Missing required fields"]
          ELSE IF qr_expired
          THEN [@ EXCEPT !.pc = "idle", !.response = "QR code has expired"]
          ELSE IF device_registry.qr # "pending"
          THEN [@ EXCEPT !.pc = "idle", !.response = "QR code has already been used"]
          ELSE [@ EXCEPT !.pc = "register"]]
    /\ UNCHANGED <<cycleVars, dashVars, call, verdict, stamped, query,
                   device_registry, qr_expired, qr_count>>

\* the registration: `device_registry['devices'][device_id] = {...}`,
\* `qr_info['status'] = 'used'`, _save_device_registry() (open() and
\* json.dump may raise: the except clause answers 500 with str(e)), 201
QRRegister(r) ==
    /\ requests[r].pc = "register"
    /\ device_registry' =
          [qr |-> "used",
           devices |-> [device_registry.devices EXCEPT ![requests[r].device] = r]]
    /\ \E saved \in BOOLEAN :
         /\ requests' = [requests EXCEPT ![r] =
                [@ EXCEPT !.pc = "idle",
                          !.response = IF saved THEN "success" ELSE "str(e)"]]
         /\ qr_count' = [qr_count EXCEPT
                            !.successes = IF saved THEN @ + 1 ELSE @]
    /\ UNCHANGED <<cycleVars, dashVars, call, verdict, stamped, query, qr_expired>>

\* the 24 hours of the token pass
QRExpire ==
    /\ ~qr_expired
    /\ qr_expired' = TRUE
    /\ UNCHANGED <<cycleVars, dashVars, call, verdict, stamped, query,
                   device_registry, requests, qr_count>>

NextQR ==
    \/ \E r \in Requests : QRRequest(r)
    \/ \E r \in Requests : QRVerify(r)
    \/ \E r \in Requests : QRRegister(r)
    \/ QRExpire

InitQR == InitWith(<<>>, 0, 0) /\ NoCall

SpecQR == InitQR /\ [][NextQR]_vars

(* --------------- meter_preview_ui: POST /api/trigger/<meter_type> ------- *)
\* how the subprocess of a background reading ends: exit code 0, another
\* exit code, subprocess.TimeoutExpired after 90 s, another exception
Outcomes == {"ok", "nonzero", "timeout", "raise"}

\* a background thread that clears the mark only after a reading that
\* succeeded
DiscardsOnSuccess(outcome) == outcome = "ok"

\* trigger_reading_async: `finally: READING_IN_PROGRESS.discard(meter_type)`
Discards(outcome) == TRUE

\* api_trigger_reading: `if meter_type in READING_IN_PROGRESS: return
\* {'status': 'in_progress'}`
TriggerCheck(r) ==
    /\ triggers[r].pc = "idle"
    /\ \E k \in TriggerTypes :
         triggers' = [triggers EXCEPT ![r] =
                        IF k \in in_progress
                        THEN [pc |-> "idle", type |-> k, status |-> "in_progress"]
                        ELSE [pc |-> "add", type |-> k, status |-> "none"]]
    /\ UNCHANGED <<cycleVars, qrVars, call, verdict, stamped, query,
                   in_progress, background>>

\* api_trigger_reading: READING_IN_PROGRESS.add(meter_type), the daemon
\* thread running trigger_reading_async is started, 'triggered' is returned
TriggerStart(r) ==
    /\ triggers[r].pc = "add"
    /\ background[triggers[r].type].running < MaxBackground
    /\ in_progress' = in_progress \cup {triggers[r].type}
    /\ background' = [background EXCEPT ![triggers[r].type].running = @ + 1]
    /\ triggers' = [triggers EXCEPT ![r] =
                       [@ EXCEPT !.pc = "idle", !.status = "triggered"]]
    /\ UNCHANGED <<cycleVars, qrVars, call, verdict, stamped, query>>

\* trigger_reading_async: subprocess.run(..., timeout=90) ends one way or
\* another, then the finally clause
ReadingEnds(k) ==
    /\ background[k].running > 0
    /\ \E outcome \in Outcomes :
         /\ background' = [background EXCEPT ![k] =
                              [running |-> @.running - 1, last |-> outcome]]
         /\ in_progress' = IF Discards(outcome) THEN in_progress \ {k}
                            ELSE in_progress
    /\ UNCHANGED <<cycleVars, qrVars, call, verdict, stamped, query, triggers>>

NextDashboard ==
    \/ \E r \in Requests : TriggerCheck(r)
    \/ \E r \in Requests : TriggerStart(r)
    \/ \E k \in TriggerTypes : ReadingEnds(k)

InitDashboard == InitWith(<<>>, 0, 0) /\ NoCall

SpecDashboard == InitDashboard /\ [][NextDashboard]_vars

\* a background thread that has been started runs to its end: the
\* subprocess is bounded by its timeout
LiveSpecDashboard ==
    SpecDashboard /\ \A k \in TriggerTypes : WF_vars(ReadingEnds(k))

(* ------------------------------ claims --------------------------------- *)
\* threads inside BaseMeter.process_reading for meter m
InFlight(m) == {a \in Actors : pc[a] \in InCycle /\ MeterOf(a) = m}

\* C1: every meter's history is non-decreasing in total_reading
\* (readings[i].total_reading <= readings[i+1].total_reading, as Python
\* evaluates <=), in every reachable state.
C1_HistoryNonDecreasing ==
    \A m \in Meters : \A i \in 1..(Len(readings[m]) - 1) :
        PyLe(readings[m][i], readings[m][i + 1])

\* C2: at most one process_reading cycle is in flight for a meter at any time.
C2_OneCycleInFlight ==
    \A m \in Meters : Cardinality(InFlight(m)) <= 1

\* no monitor thread is between the load and the last store of its counter
\* updates for a cycle
CountersQuiescent == \A t \in Tasks : pc[t] \notin {"inc_ld", "inc_st"}

\* C3: every cycle a monitor thread has executed is counted exactly once in
\* total_readings and exactly once in successful_readings or failed_readings:
\* whenever no thread is between its counter updates, total_readings is the
\* number of cycles executed and equals successful_readings + failed_readings.
C3_EveryCycleCounted ==
    CountersQuiescent =>
        /\ total_readings = cycles_done
        /\ total_readings = successful_readings + failed_readings

\* C4: no increment of a shared counter is lost: whenever no thread is between
\* its counter updates, each counter equals the number of `+= 1` statements
\* executed on it.
C4_NoLostIncrement ==
    CountersQuiescent =>
        /\ total_readings = inc_done["total"]
        /\ successful_readings = inc_done["successful"]
        /\ failed_readings = inc_done["failed"]

\* C5: a cycle that does not end in an accepted reading leaves the history
\* unchanged, and the history changes only by one entry being appended by the
\* persist step of a cycle whose validation succeeded: in every step, each
\* meter's history either stays as it is or is extended by the accepted
\* reading of the thread that completes its persist step for that meter.
C5_HistoryAppendOnly ==
    [][\A m \in Meters :
          \/ readings'[m] = readings[m]
          \/ \E a \in Actors :
                /\ pc[a] = "persist" /\ pc'[a] # "persist"
                /\ MeterOf(a) = m
                /\ result[a].status = "ok"
                /\ readings'[m] = Append(readings[m], result[a].total)]_vars

\* a failed cycle has completed on a meter that has an accepted reading
C5_Witness ==
    \E m \in Meters : Len(readings[m]) >= 1 /\ consecutive_errors[m] >= 1

\* stop() has returned and start() has not been called since
StopReturned == ~running /\ pc[Main] # "stop_join"

\* one meter, stop() and start() called repeatedly around a cycle
InitLive == InitWith(<<"m1">>, LiveStarts, LiveCycles) /\ NoCall
SpecStop == InitLive /\ [][Next]_vars

\* C6: once stop() has returned, and until a later start(), no monitor
\* thread starts a further cycle.
C6_NoCycleAfterStop ==
    [][StopReturned =>
          \A t \in Tasks : ~(pc[t] \notin InCycle /\ pc'[t] \in InCycle)]_vars

\* stop() has returned while a monitor thread's cycle is still in flight
C6_Witness ==
    /\ StopReturned /\ pc[Main] = "idle" /\ stop_event
    /\ \E t \in Tasks : pc[t] \in InCycle

AllTasksExited == \A t \in Tasks : pc[t] \in {"unborn", "done"}

\* monitor threads keep running (in-flight calls return, the loop proceeds,
\* a set event wakes the wait); the interval itself may last arbitrarily long
TaskFairness ==
    \A t \in Tasks :
        /\ WF_vars(Capture(t)) /\ WF_vars(Interpret(t)) /\ WF_vars(Persist(t))
        /\ WF_vars(LoopCheck(t)) /\ WF_vars(IncLoad(t)) /\ WF_vars(IncStore(t))
        /\ WF_vars(WaitSignalled(t))
LiveSpec == InitLive /\ [][Next]_vars /\ TaskFairness

LiveSpecStop == InitLive /\ [][Next]_vars /\ WF_vars(StopJoin) /\ WF_vars(StopFinish)

\* C8: stop() on a running orchestrator always returns, also when monitor
\* threads never exit; when it returns, running is False and the thread map
\* is empty.
C8_StopReturns ==
    /\ [][(pc[Main] = "stop_join" /\ pc'[Main] # "stop_join")
             => (~running' /\ \A m \in Meters : threads'[m] = NoThread)]_vars
    /\ (pc[Main] = "stop_join" ~> pc[Main] = "idle")

\* stop() has returned although a monitor thread has not exited
C8_Witness ==
    /\ pc[Main] = "idle" /\ ~running /\ starts >= 1
    /\ \A m \in Meters : threads[m] = NoThread
    /\ \E t \in Tasks : pc[t] \notin {"unborn", "done"}

\* C9: a monitor thread terminates only at its loop test with the stop
\* signal set, never because of a cycle outcome: after a cycle that returned
\* an error or raised, it counts the failure and goes on to the wait.
C9_TaskExitsOnlyOnStop ==
    [][\A t \in Tasks :
          /\ (pc[t] # "done" /\ pc'[t] = "done") => (pc[t] = "loop" /\ stop_event)
          /\ (pc[t] \in InCycle /\ pc'[t] \notin InCycle) => pc'[t] = "inc_ld"
          /\ (pc[t] = "inc_st" /\ pc'[t] # "inc_st") => pc'[t] \in {"inc_ld", "wait"}]_vars

\* the monitor thread of m1 is in its second cycle after a first cycle that
\* ended in an error result (the two cycles begun so far are both its own)
C9_Witness ==
    /\ cycles = 2 /\ consecutive_errors["m1"] >= 1
    /\ pc[<<"m1", 1>>] \in InCycle

\* C10: an interpretation failure or malformed response never raises out of
\* the cycle: the interpret step always ends with a result (an error result
\* or a reading) that goes on to the cycle's bookkeeping.
C10_InterpretNeverRaises ==
    [][\A a \in Actors :
          (pc[a] = "interpret" /\ pc'[a] # "interpret") => pc'[a] = "persist"]_vars

(* --------------------- claims about validate_reading -------------------- *)
\* the call has returned
Returned == verdict \notin {"none", "pending"}
CallTotal == call.reading.total
CallLast == call.history[Len(call.history)]
CallChange == PySub(CallTotal, CallLast)

\* the reading passes the checks a validator makes before it looks at the
\* history: total_reading is a non-negative number and, for a water meter,
\* digital_reading and dial_reading are numbers that add up to it, with
\* digital_reading >= 0 and dial_reading in [0, 1)
ReachesHistoryCheck ==
    /\ PyGe(CallTotal, Num(0))
    /\ call.kind = "water" =>
          /\ IsNum(call.reading.digital) /\ IsNum(call.reading.dial)
          /\ CallTotal = PyAdd(call.reading.digital, call.reading.dial)
          /\ call.reading.digital.v >= 0
          /\ call.reading.dial.v >= 0 /\ call.reading.dial.v < 1

\* C17 as stated: for every meter kind and every non-empty history, a
\* candidate whose total_reading is strictly less than the last accepted one
\* is rejected with the reason "reading decreased", and a candidate equal to
\* the last accepted value is not rejected by this rule.
C17_DecreaseRejected ==
    (Returned /\ Len(call.history) > 0) =>
        /\ PyLt(CallTotal, CallLast) => verdict = "Reading decreased"
        /\ (IsNum(CallTotal) /\ CallTotal = CallLast)
              => verdict # "Reading decreased"

\* C17 amended: for every meter kind and every non-empty history, a candidate
\* that passes the checks made before the history check and whose
\* total_reading is strictly less than the last accepted one is rejected
\* with the reason "reading decreased"; a candidate equal to the last
\* accepted value is not rejected by this rule.
C17_DecreaseRejectedWhenReached ==
    (Returned /\ Len(call.history) > 0) =>
        /\ (ReachesHistoryCheck /\ PyLt(CallTotal, CallLast))
              => verdict = "Reading decreased"
        /\ (IsNum(CallTotal) /\ CallTotal = CallLast)
              => verdict # "Reading decreased"

\* a consistent water reading of 99 after an accepted 100 has been rejected
\* as a decrease
C17_Witness ==
    /\ call.kind = "water" /\ call.history = <<Num(100)>>
    /\ CallTotal = Num(99) /\ ReachesHistoryCheck
    /\ verdict = "Reading decreased"

\* C18 as stated: for every meter kind and every non-empty history, a
\* candidate is rejected with the reason "excessive change" exactly when
\* candidate.total_reading - last > max_change_per_reading, and a present,
\* non-negative candidate with 0 <= delta <= max (delta = max included) is
\* accepted.
C18_ExcessiveChange ==
    (Returned /\ Len(call.history) > 0) =>
        /\ verdict = "Excessive change"
              <=> PyGt(CallChange, Num(call.max_change))
        /\ (PyGe(CallTotal, Num(0)) /\ PyGe(CallChange, Num(0))
                /\ PyLe(CallChange, Num(call.max_change)))
              => verdict = "ok"

\* C18 amended: for every meter kind and every non-empty history, a candidate
\* that passes the checks made before the history check is rejected with
\* the reason "excessive change" exactly when candidate.total_reading - last
\* > max_change_per_reading, and is accepted when 0 <= delta <= max (delta =
\* max included); no other candidate is rejected with that reason.
C18_ExcessiveChangeWhenReached ==
    (Returned /\ Len(call.history) > 0) =>
        /\ verdict = "Excessive change" => PyGt(CallChange, Num(call.max_change))
        /\ (ReachesHistoryCheck /\ PyGt(CallChange, Num(call.max_change)))
              => verdict = "Excessive change"
        /\ (ReachesHistoryCheck /\ PyGe(CallChange, Num(0))
                /\ PyLe(CallChange, Num(call.max_change)))
              => verdict = "ok"

\* a consistent water reading of 110 after an accepted 100, with the default
\* maximum change of 10, has been accepted
C18_Witness ==
    /\ call.kind = "water" /\ call.history = <<Num(100)>>
    /\ call.max_change = 10 /\ CallTotal = Num(110) /\ ReachesHistoryCheck
    /\ verdict = "ok"

\* C19 as stated: with an empty history every candidate whose total_reading
\* is present and >= 0 is accepted, for every meter kind, whatever its
\* magnitude.
C19_FirstReadingAccepted ==
    (Returned /\ call.history = <<>> /\ PyGe(CallTotal, Num(0)))
        => verdict = "ok"

\* C19 amended: with an empty history every candidate that passes the checks
\* made before the history check (total_reading present and >= 0; for a
\* water meter also consistent digital and dial readings) is accepted,
\* whatever its magnitude.
C19_FirstReadingAcceptedWhenReached ==
    (Returned /\ call.history = <<>> /\ ReachesHistoryCheck)
        => verdict = "ok"

\* a consistent water reading of 1000, a hundred times the maximum change,
\* has been accepted as the first reading
C19_Witness ==
    /\ call.kind = "water" /\ call.history = <<>> /\ call.max_change = 10
    /\ CallTotal = Num(1000) /\ ReachesHistoryCheck
    /\ verdict = "ok"

\* C20: a candidate whose total_reading is null or NaN is rejected as
\* missing by every validator, for every history, and in every reachable
\* state every entry of every meter's history is a present, non-NaN,
\* non-negative total_reading.
C20_NoMissingValueAccepted ==
    /\ (Returned /\ ~IsNum(CallTotal))
          => verdict \in {"Missing values", "Missing total reading"}
    /\ \A m \in Meters : \A i \in 1..Len(readings[m]) :
          PyGe(readings[m][i], Num(0))

(* ------------------ claims about the steps of one cycle ----------------- *)
\* C11: a cycle whose capture fails makes one capture attempt and goes on to
\* its bookkeeping without calling the interpretation service or the
\* validator; that bookkeeping increments consecutive_errors by exactly one
\* and the cycle returns the capture error to its caller.
C11_CaptureFailureCounted ==
    [][\A a \in Actors :
          /\ (pc[a] = "capture" /\ pc'[a] # "capture" /\ pc'[a] # "interpret")
                => (pc'[a] = "persist" /\ result'[a] = ErrorResult(CaptureFailed))
          /\ (pc[a] = "persist" /\ pc'[a] # "persist"
                 /\ result[a] = ErrorResult(CaptureFailed))
                => /\ consecutive_errors'[MeterOf(a)]
                        = consecutive_errors[MeterOf(a)] + 1
                   /\ result'[a].status = "error"]_vars

\* C15: when the validator has rejected the reading, the cycle still saves
\* the snapshot of the captured image and returns an error result, leaves
\* the history (and so every usage summary) unchanged, and hands nothing to
\* store_reading or publish_mqtt.
C15_RejectedReadingAudited ==
    [][\A a \in Actors :
          (pc[a] = "persist" /\ pc'[a] # "persist"
             /\ result[a] = ErrorResult(ValidationFailed))
            => /\ io'[a].snapshot
               /\ result'[a].status = "error"
               /\ readings' = readings
               /\ ~io'[a].stored /\ ~io'[a].published]_vars

\* C16: whatever fails while a reading that passed validation is written to
\* the JSONL log, the snapshot directory, InfluxDB or MQTT, the cycle is not
\* unwound: the reading is appended to the history, consecutive_errors is
\* reset to 0 and the cycle returns the reading (so it counts as successful).
C16_StorageFailureKeepsReading ==
    [][\A a \in Actors :
          (pc[a] = "persist" /\ pc'[a] # "persist" /\ result[a].status = "ok")
            => /\ readings'[MeterOf(a)]
                    = Append(readings[MeterOf(a)], result[a].total)
               /\ consecutive_errors'[MeterOf(a)] = 0
               /\ result'[a].status = "ok"]_vars

(* ------------- claims about what the calls return to the caller --------- *)
\* the entries of a returned dictionary
Entries(d) == {n \in Meters : d[n] # "absent"}

\* the caller thread takes a step of run_once
RunOnceStep ==
    \/ pc[Main] = "idle" /\ pc'[Main] = "capture"
    \/ pc[Main] \in InCycle \cup {"ro_next"} /\ pc'[Main] # pc[Main]

\* C12: start() on an orchestrator without initialized meters reports a
\* failure to its caller instead of returning normally, spawns no monitor
\* thread and leaves running False.
C12_StartWithoutMetersFails ==
    [][(meters = <<>> /\ pc[Main] = "idle" /\ ret' # ret /\ ret'.op = "start")
          => /\ ret'.raised
             /\ ~running'
             /\ \A n \in Meters : threads'[n] = NoThread
             /\ \A t \in Tasks : pc'[t] = "unborn"]_vars

\* C13: run_once() runs one cycle for every configured meter, going on to
\* the next meter whatever the result of the one before (error result or
\* exception), returns a dictionary with one result per configured meter,
\* and leaves running, the thread map, the stop signal and the three
\* counters as they are.
C13_RunOnceOneResultPerMeter ==
    [][/\ (pc[Main] = "ro_next" /\ pc'[Main] # "ro_next") =>
             /\ ro_left' = Tail(ro_left)
             /\ Len(ro_left) > 1 => pc'[Main] = "capture"
             /\ Len(ro_left) = 1 =>
                   /\ pc'[Main] = "idle" /\ ret'.op = "run_once"
                   /\ Cardinality(Entries(ret'.value)) = Len(meters)
       /\ RunOnceStep => UNCHANGED <<orchVars, counterVars>>]_vars

\* C14: test_connections() returns one boolean per meter and does nothing
\* but try the capture of each: no thread moves, and every meter's history
\* and consecutive_errors and the orchestrator's counters and scheduling
\* state stay as they are.
C14_TestConnectionsPerMeter ==
    [][(pc[Main] = "idle" /\ ret' # ret /\ ret'.op = "test_connections")
          => /\ Cardinality(Entries(ret'.value)) = Len(meters)
             /\ \A n \in Entries(ret'.value) : ret'.value[n] \in {"True", "False"}
             /\ UNCHANGED <<meterVars, counterVars, orchVars, pc, io>>]_vars

(* ------------------- claims about the bookkeeping of cycles ------------- *)
\* C27: consecutive_errors counts the cycles that have failed since the
\* meter's last successful cycle: a cycle that ends with a reading resets it
\* to 0, and a cycle that ends in failure, whatever the failing stage,
\* increases it by exactly 1.
C27_ErrorCountTracksFailures ==
    [][\A a \in Actors :
          (pc[a] \in InCycle /\ pc'[a] \notin InCycle)
            => consecutive_errors'[MeterOf(a)] =
                   IF result'[a].status = "ok" THEN 0
                   ELSE consecutive_errors[MeterOf(a)] + 1]_vars

\* monitor threads of meter m that have been started and have not exited
LiveTasks(m) == {t \in Tasks : t[1] = m /\ pc[t] \notin {"unborn", "done"}}

\* C30: each meter has at most one live monitor thread: start() on a running
\* orchestrator spawns nothing, and after a stop() and a further start() no
\* thread of the earlier run goes on looping beside the new thread of its
\* meter (no thread begins a cycle while another thread of the same meter is
\* live).
C30_OneLiveTaskPerMeter ==
    [][/\ \A t \in Tasks : (pc[t] = "unborn" /\ pc'[t] # "unborn") => ~running
       /\ \A t \in Tasks :
             (pc[t] = "loop" /\ pc'[t] = "capture")
                => LiveTasks(t[1]) = {t}]_vars

(* --------------------- claims about independent meters ------------------ *)
\* C23: the meters are scheduled independently: in every reachable state a
\* monitor thread in its interval wait can leave it when the interval has
\* elapsed, and a monitor thread at its loop test with the stop signal clear
\* can begin its cycle (within the cycles explored), whatever the other
\* threads are doing, one blocked inside capture or interpret included.
C23_IndependentScheduling ==
    \A t \in Tasks :
        /\ pc[t] = "wait" => ENABLED WaitTimeout(t)
        /\ (pc[t] = "loop" /\ ~stop_event /\ cycles < budget.cycles)
              => ENABLED LoopCheck(t)

\* the monitor thread of m1 is in a cycle it began while the monitor thread
\* of m2 was, and still is, inside its capture or interpret step
C23_Witness ==
    /\ cycles = 2
    /\ pc[<<"m1", 1>>] = "capture"
    /\ pc[<<"m2", 1>>] \in {"capture", "interpret"}

\* C25: different meters share no data: a reading appended to a meter's
\* history was read from a picture of that meter's own camera, and a cycle
\* of one meter changes neither the history nor consecutive_errors of
\* another meter, also when two meters of the same kind run their cycles
\* concurrently.
C25_NoSharedData ==
    [][\A a \in Actors :
          (pc[a] \in InCycle /\ pc'[a] # pc[a]) =>
              /\ readings'[MeterOf(a)] # readings[MeterOf(a)]
                    => img[a] = MeterOf(a)
              /\ \A o \in Meters \ {MeterOf(a)} :
                    /\ readings'[o] = readings[o]
                    /\ consecutive_errors'[o] = consecutive_errors[o]]_vars

(* ---------------------- claims about usage summaries -------------------- *)
\* a get_usage_summary call has returned
SummaryReturned == query.pc = "returned"

\* C21: a usage summary asked for while the meter's history holds fewer than
\* two accepted readings (none or one) is the insufficient-data outcome, for
\* every meter kind, asked of the meter or through get_meter_summaries().
C21_FewReadingsInsufficient ==
    (SummaryReturned /\ query.len0 < 2) => query.summary.outcome = "insufficient"

\* a summary asked through the orchestrator of a meter with one accepted
\* reading has come back as insufficient data
C21_Witness ==
    /\ SummaryReturned /\ query.via = "orchestrator"
    /\ query.len0 = 1 /\ Len(stamped) >= 1
    /\ query.summary.outcome = "insufficient"

\* C22: a summary over two or more readings whose duration (last timestamp
\* minus first timestamp) is not strictly positive is the insufficient-data
\* outcome: a summary with numeric fields is returned only with a duration
\* > 0.
C22_NoSummaryWithoutDuration ==
    (SummaryReturned /\ query.summary.outcome = "summary")
        => query.summary.duration > 0

\* C24: a summary returned while the monitor thread is running is computed
\* from one history: all its fields equal those of the summary of a single
\* history the meter held at some moment of the call.
C24_SummaryOfOneHistory ==
    (SummaryReturned /\ query.summary.outcome = "summary") =>
        \E k \in query.len0..query.len1 :
            query.summary = UsageSummary(query.kind, SubSeq(stamped, 1, k))

(* ----------------------- claims about the web services ------------------ *)
\* C26: a binding token serves at most one successful registration: of the
\* decode_and_register_qr calls presenting it at most one is answered with
\* success, and every call made after that one is answered with the error
\* "QR code has already been used" and leaves the device registry as it is.
C26_TokenUsedOnce ==
    [][/\ qr_count'.successes <= 1
       /\ \A r \in Requests :
             (requests[r].pc # "idle" /\ requests'[r].pc = "idle"
                /\ requests[r].late)
               => /\ requests'[r].response = "QR code has already been used"
                  /\ device_registry' = device_registry]_vars

\* C28: for each meter type at most one background reading started by
\* POST /api/trigger/<meter_type> is running at any time, however the
\* trigger requests interleave, and a trigger that arrives while one is
\* running is answered 'in_progress' and starts nothing.
C28_OneBackgroundReading ==
    [][/\ \A k \in TriggerTypes : background'[k].running <= 1
       /\ \A r \in Requests :
             (triggers[r].pc = "idle" /\ triggers'[r] # triggers[r]
                /\ background[triggers'[r].type].running > 0)
               => /\ triggers'[r].status = "in_progress"
                  /\ triggers'[r].pc = "idle"]_vars

\* C29: a meter type added to READING_IN_PROGRESS by a trigger is eventually
\* removed, whether the subprocess succeeds, exits non-zero, times out or
\* raises, and a trigger that then finds the type unmarked is accepted.
C29_MarkEventuallyCleared ==
    /\ [][\A r \in Requests :
             (triggers[r].pc = "idle" /\ triggers'[r] # triggers[r]
                /\ triggers'[r].type \notin in_progress)
               => triggers'[r].pc = "add"]_vars
    /\ \A k \in TriggerTypes : (k \in in_progress) ~> (k \notin in_progress)

\* the mark of the water meter has been cleared after a background reading
\* that timed out, and a trigger has been accepted since
C29_Witness ==
    /\ background["water"].last = "timeout"
    /\ background["water"].running = 0 /\ "water" \notin in_progress
    /\ \E r \in Requests :
          triggers[r] = [pc |-> "add", type |-> "water", status |-> "none"]

====
